---- MODULE Spec2Model ----
(***************************************************************************)
(* A model of the Multimodal-Article-Enricher core:                        *)
(*   - select_best_image_with_grok (src/main.py), the candidate resolver:  *)
(*     best-of-N selection against an unreliable judge with exclusion and  *)
(*     bounded retry;                                                      *)
(*   - html_to_article_view (src/src/article_processor.py), the parser     *)
(*     that derives the article view and writes anchors into the markup;   *)
(*   - inject_slots_into_html (src/src/article_processor.py), the injector *)
(*     that inserts figures and widgets next to anchors.                   *)
(*                                                                         *)
(* Markup is modelled as the sequence of its elements in document order.   *)
(* An element is a record [nid, tag, id, attr, text, kids]: nid is the     *)
(* identity of the node object, id the value of its id attribute ("" when  *)
(* absent), attr the one other attribute the code reads (itemtype of an    *)
(* article, class of a span, class of an inserted fragment), kids the     *)
(* children of an inserted fragment.  An article element contains the      *)
(* elements that follow it up to the next article element.                 *)
(***************************************************************************)
EXTENDS Integers, Sequences, FiniteSets, TLC

VARIABLES
    \* ---- select_best_image_with_grok
    n,                \* len(candidates)
    hasKey,           \* whether an API key is available
    excluded_indices, \* set of original (0-based) candidate indices
    attempt,          \* the loop variable of "for attempt in range(max_retries)"
    calls,            \* number of client.chat.completions.create calls issued
    outcomes,         \* what each call did, in order
    submitted,        \* available_candidates of the last call, as original indices
    rpc,              \* position in the function
    ret,              \* the value returned
    \* ---- html_to_article_view / inject_slots_into_html
    input,            \* the markup given to the first call
    markup,           \* the current markup (str(soup))
    view,             \* the article view returned by the last parse
    passes,           \* number of completed html_to_article_view calls
    prev,             \* markup and view returned by the parse before the last
    ppc,              \* "ready", "parsed" or "raised"
    slot,             \* the slot inject_slots_into_html handled last
    applied,          \* number of slots handled
    log,              \* what became of each slot handled, in order
    \* ---- build_image_slots_from_specs
    slot_specs,       \* the slot specs given
    handled,          \* number of specs the loop is done with
    image_slots,      \* the list being built
    fates,            \* what the search and the resolution of each spec gave
    bpc               \* "next", "resolving" or "returned"

rvars == <<n, hasKey, excluded_indices, attempt, calls, outcomes, submitted, rpc, ret>>
pvars == <<input, markup, view, passes, prev, ppc>>
ivars == <<slot, applied, log>>
bvars == <<slot_specs, handled, image_slots, fates, bpc>>
vars == <<rvars, pvars, ivars, bvars>>

(***************************************************************************)
(* Bounds                                                                  *)
(***************************************************************************)
MaxCandidates == 4
MaxTokens == 4
MaxPasses == 2
MaxInjNodes == 2
MaxSlots == 2
MaxSpecs == 2
MaxBuildCandidates == 2

NoneVal == "None"

(***************************************************************************)
(* select_best_image_with_grok                                             *)
(***************************************************************************)

\* The markers of a retryable image-fetch error.
retryable_errors ==
    { "Unrecoverable data loss or corruption",
      "Unsupported content-type",
      "Fetching image failed",
      "Fetching images over plain http://",
      "Error code: 412",
      "Error code: 403",
      "Error code: 404" }

\* Error texts the judge call may raise: each marker, and texts holding none.
ErrorMsgs == retryable_errors \cup { "Error code: 500", "Request timed out." }

\* any(err in error_msg for err in retryable_errors); a message is
\* represented by the marker it holds, or by itself when it holds none.
IsRetryableMut(error_msg) == TRUE
IsRetryable(error_msg) == error_msg \in retryable_errors

MaxRetriesMut(len) == len - 1
MaxRetries(len) == len

\* The integers the judge may answer as selected_index.
JudgeIndices == (0 - (MaxCandidates + 1)) .. (MaxCandidates + 1)

RECURSIVE Ascending(_, _, _)
\* The members of S among lo..hi, in increasing order.
Ascending(lo, hi, S) ==
    IF lo > hi THEN <<>>
    ELSE (IF lo \in S THEN <<lo>> ELSE <<>>) \o Ascending(lo + 1, hi, S)

\* available_candidates, as the sequence of original indices it pairs the
\* candidates with.
AvailableMut(len, excl) == Ascending(0, len - 1, 0 .. (len - 1))
Available(len, excl) == Ascending(0, len - 1, (0 .. (len - 1)) \ excl)

\* Python list indexing: seq[j], defined for -len <= j < len.
PyInRange(seq, j) == (0 - Len(seq)) <= j /\ j < Len(seq)
PyIndexMut(seq, j) == j
PyIndex(seq, j) == IF j >= 0 THEN seq[j + 1] ELSE seq[Len(seq) + j + 1]

\* failed_idx = available_candidates[-1][0]
FailedIdxMut(avail) == PyIndex(avail, 0)
FailedIdx(avail) == PyIndex(avail, -1)

Pending == [kind |-> "pending", index |-> 0, caption |-> ""]
Selected(i, c) == [kind |-> "Selected", index |-> i, caption |-> c]
\* return None, None
Exhausted == [kind |-> "Exhausted", index |-> -1, caption |-> NoneVal]

\* A JSON object with selected_index j and caption c (NoneVal for null).
Answer(j, c) == [kind |-> "ok", j |-> j, msg |-> "", caption |-> c]
Ok(j) == Answer(j, "caption")
Malformed == [kind |-> "malformed", j |-> 0, msg |-> "", caption |-> ""]
Raised(m) == [kind |-> "error", j |-> 0, msg |-> m, caption |-> ""]

\* What one judge call can do: answer an index, answer something that is not
\* the JSON object asked for, or raise.
OracleOutcomes ==
    { Ok(j) : j \in JudgeIndices } \cup { Answer(0, NoneVal), Malformed }
        \cup { Raised(m) : m \in ErrorMsgs }

\* Lines 36-56: the empty-list default, the missing-key default, the set-up
\* of the retry loop.
EnterMut ==
    /\ rpc = "start"
    /\ IF ~hasKey /\ n > 0
       THEN /\ rpc' = "selected"
            /\ ret' = Selected(0, "title")
            /\ UNCHANGED <<excluded_indices, attempt>>
       ELSE /\ rpc' = "loop"
            /\ excluded_indices' = {}
            /\ attempt' = 0
            /\ UNCHANGED ret
    /\ UNCHANGED <<n, hasKey, calls, outcomes, submitted, pvars, ivars, bvars>>
Enter ==
    /\ rpc = "start"
    /\ IF n = 0
       THEN /\ rpc' = "selected"
            /\ ret' = Selected(0, "")
            /\ UNCHANGED <<excluded_indices, attempt>>
       ELSE IF ~hasKey
       THEN /\ rpc' = "selected"
            /\ ret' = Selected(0, "title")
            /\ UNCHANGED <<excluded_indices, attempt>>
       ELSE /\ rpc' = "loop"
            /\ excluded_indices' = {}
            /\ attempt' = 0
            /\ UNCHANGED ret
    /\ UNCHANGED <<n, hasKey, calls, outcomes, submitted, pvars, ivars, bvars>>

\* Lines 58-192: one iteration of the retry loop with judge outcome o.
AttemptWith(o) ==
    LET avail == Available(n, excluded_indices) IN
    /\ rpc = "loop"
    /\ attempt < MaxRetries(n)
    /\ IF avail = <<>>
       THEN \* lines 62-64
            /\ rpc' = "exhausted"
            /\ ret' = Exhausted
            /\ UNCHANGED <<excluded_indices, attempt, calls, outcomes, submitted>>
       ELSE /\ calls' = calls + 1
            /\ outcomes' = Append(outcomes, o)
            /\ submitted' = avail
            /\ IF o.kind = "ok" /\ PyInRange(avail, o.j)
               THEN \* lines 148-160
                    /\ rpc' = "selected"
                    /\ ret' = Selected(PyIndex(avail, o.j), o.caption)
                    /\ UNCHANGED <<excluded_indices, attempt>>
               ELSE IF o.kind = "error" /\ IsRetryable(o.msg)
               THEN \* lines 176-188
                    /\ excluded_indices' = excluded_indices \cup {FailedIdx(avail)}
                    /\ attempt' = attempt + 1
                    /\ UNCHANGED <<rpc, ret>>
               ELSE \* lines 190-192: any other exception, the IndexError of
                    \* an index out of range and the errors of a malformed
                    \* answer included
                    /\ rpc' = "exhausted"
                    /\ ret' = Exhausted
                    /\ UNCHANGED <<excluded_indices, attempt>>
    /\ UNCHANGED <<n, hasKey, pvars, ivars, bvars>>

Attempt == \E o \in OracleOutcomes : AttemptWith(o)

\* Lines 194-196: the loop ran out.
LoopExitMut ==
    /\ rpc = "loop"
    /\ attempt >= MaxRetries(n)
    /\ rpc' = "fellthrough"
    /\ UNCHANGED <<ret, n, hasKey, excluded_indices, attempt, calls, outcomes, submitted, pvars, ivars, bvars>>
LoopExit ==
    /\ rpc = "loop"
    /\ attempt >= MaxRetries(n)
    /\ rpc' = "exhausted"
    /\ ret' = Exhausted
    /\ UNCHANGED <<n, hasKey, excluded_indices, attempt, calls, outcomes, submitted, pvars, ivars, bvars>>

NoMarkup == <<>>
NoView == [title |-> "", sections |-> <<>>]
NoSlot == [kind |-> "none"]

\* build_image_slots_from_specs is not running.
BuildIdle ==
    /\ slot_specs = <<>>
    /\ handled = 0
    /\ image_slots = <<>>
    /\ fates = <<>>
    /\ bpc = "idle"

ResolverInit ==
    /\ n \in 0 .. MaxCandidates
    /\ hasKey \in BOOLEAN
    /\ excluded_indices = {}
    /\ attempt = 0
    /\ calls = 0
    /\ outcomes = <<>>
    /\ submitted = <<>>
    /\ rpc = "start"
    /\ ret = Pending
    /\ input = NoMarkup
    /\ markup = NoMarkup
    /\ view = NoView
    /\ passes = 0
    /\ prev = [markup |-> NoMarkup, view |-> NoView]
    /\ ppc = "ready"
    /\ slot = NoSlot
    /\ applied = 0
    /\ log = <<>>
    /\ BuildIdle

ResolverNext == Enter \/ Attempt \/ LoopExit

\* The function runs to completion: the judge call blocks until it answers
\* or raises (the client has a timeout), so a step that can be taken is taken.
ResolverSpec == ResolverInit /\ [][ResolverNext]_vars /\ WF_vars(ResolverNext)

(***************************************************************************)
(* html_to_article_view                                                    *)
(***************************************************************************)

HEADING_TAGS == {"h1", "h2", "h3", "h4", "h5", "h6"}
SchemaArticle == "https://schema.org/Article"

Node(nid, tag, id, attr, text) ==
    [nid |-> nid, tag |-> tag, id |-> id, attr |-> attr, text |-> text, kids |-> <<>>]

\* int(tag.name[1])
Level(tag) ==
    CASE tag = "h1" -> 1 [] tag = "h2" -> 2 [] tag = "h3" -> 3
      [] tag = "h4" -> 4 [] tag = "h5" -> 5 [] OTHER -> 6

Min(S) == CHOOSE x \in S : \A y \in S : x <= y
Max(S) == CHOOSE x \in S : \A y \in S : x >= y

FindArticleMut(m) ==
    LET tagged == { i \in 1 .. Len(m) : m[i].tag = "article" /\ SchemaArticle \in m[i].attr }
    IN  IF tagged # {} THEN Min(tagged) ELSE 0

\* soup.find("article", attrs={"itemtype": ...}), else soup.find("article"):
\* the position of the article element, 0 when there is none.
FindArticle(m) ==
    LET tagged == { i \in 1 .. Len(m) : m[i].tag = "article" /\ SchemaArticle \in m[i].attr }
        any == { i \in 1 .. Len(m) : m[i].tag = "article" }
    IN  IF tagged # {} THEN Min(tagged)
        ELSE IF any # {} THEN Min(any)
        ELSE 0

\* The position of the last element inside the article element at a.
ArticleEnd(m, a) ==
    LET later == { i \in (a + 1) .. Len(m) : m[i].tag = "article" }
    IN  IF later = {} THEN Len(m) ELSE Min(later) - 1

\* article.find("h1"): the position of the title element, 0 when none.
FindTitle(m, a) ==
    LET hs == { i \in (a + 1) .. ArticleEnd(m, a) : m[i].tag = "h1" }
    IN  IF hs = {} THEN 0 ELSE Min(hs)

\* tag.name == "p" or (tag.name == "span" and "mb-4" in class and "block" in class)
IsParagraphLike(t) ==
    \/ t.tag = "p"
    \/ t.tag = "span" /\ "mb-4" \in t.attr /\ "block" \in t.attr

\* section_id = tag.get("id") or f"sec_{section_counter}"
SectionId(t, section_counter) ==
    IF t.id # "" THEN t.id ELSE "sec_" \o ToString(section_counter)

ParagraphIdMut(t, paragraph_counter) == "p_" \o ToString(paragraph_counter)

\* p_id = tag.get("id") or f"p_{paragraph_counter}"
ParagraphId(t, paragraph_counter) ==
    IF t.id # "" THEN t.id ELSE "p_" \o ToString(paragraph_counter)

\* soup.new_tag("div", id=sec_id)
SectionAnchorMut(nid, sec_id) == Node(nid, "p", sec_id, {}, "")
SectionAnchor(nid, sec_id) == Node(nid, "div", sec_id, {}, "")

Section(id, level, heading, synthetic) ==
    [id |-> id, level |-> level, heading |-> heading, paragraphs |-> <<>>,
     synthetic |-> synthetic]

WalkStartMut(m) ==
    [out |-> <<>>, sections |-> <<>>, current |-> 0,
     section_counter |-> 1, paragraph_counter |-> 0,
     fresh |-> Max({0} \cup { m[i].nid : i \in 1 .. Len(m) }) + 1]

\* The walk's state before the first element: the elements written so far,
\* the sections, the index of current_section in them (0 for None), the two
\* counters, and the identity the next created node gets.
WalkStart(m) ==
    [out |-> <<>>, sections |-> <<>>, current |-> 0,
     section_counter |-> 0, paragraph_counter |-> 0,
     fresh |-> Max({0} \cup { m[i].nid : i \in 1 .. Len(m) }) + 1]

OnHeadingMut(st, t) ==
    LET sc == st.section_counter + 1
        section_id == SectionId(t, sc)
    IN  [st EXCEPT
            !.section_counter = sc,
            !.out = Append(@, t),
            !.sections = Append(@, Section(section_id, Level(t.tag), t.text, FALSE)),
            !.current = Len(st.sections) + 1]

\* Lines 37-47: a heading other than the title opens a section.
OnHeading(st, t) ==
    LET sc == st.section_counter + 1
        section_id == SectionId(t, sc)
    IN  [st EXCEPT
            !.section_counter = sc,
            !.out = Append(@, [t EXCEPT !.id = section_id]),
            !.sections = Append(@, Section(section_id, Level(t.tag), t.text, FALSE)),
            !.current = Len(st.sections) + 1]

\* Lines 60-75: a paragraph met while current_section is None opens the
\* synthetic section and inserts its anchor before the paragraph.
OpenSyntheticMut(st) ==
    LET sc == st.section_counter + 1
        sec_id == "sec_" \o ToString(sc)
    IN  [st EXCEPT
            !.section_counter = sc,
            !.out = Append(@, SectionAnchor(st.fresh, sec_id)),
            !.fresh = @ + 1,
            !.sections = Append(@, Section(sec_id, 2, "Introduction", TRUE))]
OpenSynthetic(st) ==
    LET sc == st.section_counter + 1
        sec_id == "sec_" \o ToString(sc)
    IN  [st EXCEPT
            !.section_counter = sc,
            !.out = Append(@, SectionAnchor(st.fresh, sec_id)),
            !.fresh = @ + 1,
            !.sections = Append(@, Section(sec_id, 2, "Introduction", TRUE)),
            !.current = Len(st.sections) + 1]

OnParagraphMut(st, t) ==
    LET pc == st.paragraph_counter + 1
        p_id == ParagraphId(t, pc)
        s1 == IF st.current = 0 THEN OpenSynthetic(st) ELSE st
    IN  [s1 EXCEPT
            !.paragraph_counter = pc,
            !.out = Append(@, [t EXCEPT !.id = p_id]),
            !.sections[1].paragraphs = Append(@, [id |-> p_id, text |-> t.text])]

\* Lines 54-77: a paragraph-like element.
OnParagraph(st, t) ==
    LET pc == st.paragraph_counter + 1
        p_id == ParagraphId(t, pc)
        s1 == IF st.current = 0 THEN OpenSynthetic(st) ELSE st
        \* current_section["paragraphs"].append(...): current_section is the
        \* section opened last
        cur == Len(s1.sections)
    IN  [s1 EXCEPT
            !.paragraph_counter = pc,
            !.out = Append(@, [t EXCEPT !.id = p_id]),
            !.sections[cur].paragraphs = Append(@, [id |-> p_id, text |-> t.text])]

\* Lines 34-35: the title heading is skipped.
OnTitleMut(st, t) == [st EXCEPT !.out = Append(@, t), !.section_counter = @ + 1]
OnTitle(st, t) == [st EXCEPT !.out = Append(@, t)]

RECURSIVE Walk(_, _, _, _, _)
\* Lines 29-77: the elements i..last of m, in document order; title is the
\* position of title_tag.
Walk(m, i, last, title, st) ==
    IF i > last THEN st
    ELSE LET t == m[i]
             st1 == IF t.tag \in HEADING_TAGS
                    THEN (IF i = title
                          THEN OnTitle(st, t)
                          ELSE OnHeading(st, t))
                    ELSE IF IsParagraphLike(t)
                    THEN OnParagraph(st, t)
                    ELSE [st EXCEPT !.out = Append(@, t)]
         IN  Walk(m, i + 1, last, title, st1)

\* html_to_article_view on a markup with an article element: the pair
\* (mutated_html, article_view).
HtmlToArticleView(m) ==
    LET a == FindArticle(m)
        last == ArticleEnd(m, a)
        title == FindTitle(m, a)
        st == Walk(m, a + 1, last, title, WalkStart(m))
    IN  [markup |-> SubSeq(m, 1, a) \o st.out \o SubSeq(m, last + 1, Len(m)),
         view |-> [title |-> IF title = 0 THEN "" ELSE m[title].text,
                   sections |-> st.sections]]

\* A call of html_to_article_view that returns; the first is given the
\* input, a later one the markup the call before it returned.
Parse ==
    /\ ppc \in {"ready", "parsed"}
    /\ passes < MaxPasses
    /\ FindArticle(markup) # 0
    /\ LET r == HtmlToArticleView(markup) IN
        /\ markup' = r.markup
        /\ view' = r.view
    /\ prev' = [markup |-> markup, view |-> view]
    /\ passes' = passes + 1
    /\ ppc' = "parsed"
    /\ UNCHANGED <<input, rvars, ivars, bvars>>

\* Lines 13-16: raise ValueError("No <article> tag found in HTML.")
ParseRaise ==
    /\ ppc = "ready"
    /\ FindArticle(markup) = 0
    /\ ppc' = "raised"
    /\ UNCHANGED <<input, markup, view, passes, prev, rvars, ivars, bvars>>

\* The elements an input markup is made of.
InputIds == {"", "sec_1", "p_1"}
InputShapes ==
    { <<"article", "", {}>>, <<"article", "", {SchemaArticle}>>, <<"span", "", {"mb-4"}>> }
    \cup { <<tag, id, {}>> : tag \in {"h1", "h2", "p"}, id \in InputIds }
    \cup { <<"span", id, {"mb-4", "block"}>> : id \in InputIds }

MarkupOf(f, len) ==
    [ i \in 1 .. len |-> Node(i, f[i][1], f[i][2], f[i][3], "t" \o ToString(i)) ]

ResolverIdle ==
    /\ n = 0
    /\ hasKey = FALSE
    /\ excluded_indices = {}
    /\ attempt = 0
    /\ calls = 0
    /\ outcomes = <<>>
    /\ submitted = <<>>
    /\ rpc = "idle"
    /\ ret = Pending

ParserInit ==
    /\ ResolverIdle
    /\ \E len \in 0 .. MaxTokens : \E f \in [1 .. len -> InputShapes] :
           input = MarkupOf(f, len)
    /\ markup = input
    /\ view = NoView
    /\ passes = 0
    /\ prev = [markup |-> NoMarkup, view |-> NoView]
    /\ ppc = "ready"
    /\ slot = NoSlot
    /\ applied = 0
    /\ log = <<>>
    /\ BuildIdle

ParserNext == Parse \/ ParseRaise

ParserSpec == ParserInit /\ [][ParserNext]_vars

(***************************************************************************)
(* inject_slots_into_html                                                  *)
(***************************************************************************)

\* soup.find(id=x): the position of the first element, in document order,
\* whose id is x; 0 for None.
Find(m, x) ==
    LET hits == { i \in 1 .. Len(m) : m[i].id = x }
    IN  IF hits = {} THEN 0 ELSE Min(hits)

\* Lines 110-114 and 135-139: the anchor of a slot, 0 for None.
FindAnchorMut(m, sl) ==
    LET s == IF sl.section_id # NoneVal THEN Find(m, sl.section_id) ELSE 0
    IN  IF s = 0 /\ sl.paragraph_id # NoneVal THEN Find(m, sl.paragraph_id) ELSE s
FindAnchor(m, sl) ==
    LET a == IF sl.paragraph_id # NoneVal THEN Find(m, sl.paragraph_id) ELSE 0
    IN  IF a = 0 /\ sl.section_id # NoneVal THEN Find(m, sl.section_id) ELSE a

\* anchor.insert_before(e) and anchor.insert_after(e), anchor at position i.
InsertBeforeMut(m, i, e) == SubSeq(m, 1, i - 1) \o <<e>> \o SubSeq(m, i + 1, Len(m))
InsertBefore(m, i, e) == SubSeq(m, 1, i - 1) \o <<e>> \o SubSeq(m, i, Len(m))
InsertAfterMut(m, i, e) == Append(m, e)
InsertAfter(m, i, e) == SubSeq(m, 1, i) \o <<e>> \o SubSeq(m, i + 1, Len(m))

FreshNid(m) == Max({0} \cup { m[i].nid : i \in 1 .. Len(m) }) + 1

BuildFigureMut(nid, sl) ==
    [nid |-> nid, tag |-> "figure", id |-> "", attr |-> {"mm-slot", "image-slot"},
     text |-> "",
     kids |-> <<Node(0, "img", "", {sl.image_url}, sl.alt_text)>>
              \o (IF sl.caption # "" THEN <<Node(0, "figcaption", "", {}, sl.alt_text)>>
                  ELSE <<>>)]
\* Lines 118-126: the figure, its img and, for a non-empty caption, its
\* figcaption.
BuildFigure(nid, sl) ==
    [nid |-> nid, tag |-> "figure", id |-> "", attr |-> {"mm-slot", "image-slot"},
     text |-> "",
     kids |-> <<Node(0, "img", "", {sl.image_url}, sl.alt_text)>>
              \o (IF sl.caption # "" THEN <<Node(0, "figcaption", "", {}, sl.caption)>>
                  ELSE <<>>)]

\* Lines 143-150: the widget container and the parsed widget markup as its
\* children.  widget_html is represented by the nodes it parses to.
BuildWidget(nid, sl) ==
    [nid |-> nid, tag |-> "div", id |-> "",
     attr |-> {"widget-slot", "widget-" \o sl.widget_type},
     text |-> "", kids |-> sl.widget_html]

PlaceMut(m, sl, a, e) ==
    IF sl.position \in {"before", "before_heading"}
    THEN InsertBefore(m, a, e)
    ELSE InsertAfter(m, a, e)
\* Lines 159-175: insert e relative to the anchor at position a.
Place(m, sl, a, e) ==
    LET heading_anchor == IF sl.section_id # NoneVal THEN Find(m, sl.section_id) ELSE a
    IN  CASE sl.position = "before" -> InsertBefore(m, a, e)
          [] sl.position = "before_heading" ->
                IF heading_anchor # 0 THEN InsertBefore(m, heading_anchor, e)
                ELSE InsertBefore(m, a, e)
          [] sl.position = "after_heading" ->
                IF heading_anchor # 0 THEN InsertAfter(m, heading_anchor, e)
                ELSE InsertAfter(m, a, e)
          [] OTHER -> InsertAfter(m, a, e)

InjectOneKeepsEmptyMut(m, sl) ==
    LET a == FindAnchor(m, sl) IN
    IF sl.kind = "image"
    THEN IF a = 0 THEN [markup |-> m, did |-> "no_anchor"]
         ELSE [markup |-> Place(m, sl, a, BuildFigure(FreshNid(m), sl)), did |-> "inserted"]
    ELSE IF sl.kind = "widget"
    THEN IF a = 0 THEN [markup |-> m, did |-> "no_anchor"]
         ELSE [markup |-> Place(m, sl, a, BuildWidget(FreshNid(m), sl)), did |-> "inserted"]
    ELSE [markup |-> m, did |-> "unknown"]
InjectOneMut(m, sl) ==
    LET a == FindAnchor(m, sl)
        e == IF sl.kind = "image" THEN BuildFigure(FreshNid(m), sl)
             ELSE BuildWidget(FreshNid(m), sl)
    IN  IF sl.kind = "image" /\ sl.image_url = "" THEN [markup |-> m, did |-> "empty"]
        ELSE IF sl.kind = "widget" /\ sl.widget_html = <<>> THEN [markup |-> m, did |-> "empty"]
        ELSE IF a = 0 THEN [markup |-> m, did |-> "no_anchor"]
        ELSE [markup |-> Place(m, sl, a, e),
              did |-> IF sl.kind \in {"image", "widget"} THEN "inserted" ELSE "unknown"]
\* Lines 95-175: the body of the loop for one slot: the markup it leaves and
\* what became of the slot.
InjectOne(m, sl) ==
    LET a == FindAnchor(m, sl) IN
    IF sl.kind = "image"
    THEN IF sl.image_url = "" THEN [markup |-> m, did |-> "empty"]
         ELSE IF a = 0 THEN [markup |-> m, did |-> "no_anchor"]
         ELSE [markup |-> Place(m, sl, a, BuildFigure(FreshNid(m), sl)), did |-> "inserted"]
    ELSE IF sl.kind = "widget"
    THEN IF sl.widget_html = <<>> THEN [markup |-> m, did |-> "empty"]
         ELSE IF a = 0 THEN [markup |-> m, did |-> "no_anchor"]
         ELSE [markup |-> Place(m, sl, a, BuildWidget(FreshNid(m), sl)), did |-> "inserted"]
    ELSE [markup |-> m, did |-> "unknown"]

Positions == {"before", "after", "before_heading", "after_heading"}
SlotSectionIds == {NoneVal, "sec_1"}
SlotParagraphIds == {NoneVal, "p_1"}

\* The slots given to inject_slots_into_html: image slots ("image_url" in
\* slot), widget slots ("widget_html" in slot) and slots with neither key.
Slots ==
    { [kind |-> k[1], section_id |-> s, paragraph_id |-> p, position |-> pos,
       image_url |-> k[2], alt_text |-> "A", caption |-> k[3],
       widget_type |-> "timeline", widget_html |-> k[4]] :
        k \in { <<"image", "", "B", <<>> >>,
                <<"image", "x.png", "B", <<>> >>,
                <<"image", "x.png", "", <<>> >>,
                <<"widget", "", "", <<>> >>,
                <<"widget", "", "", <<Node(0, "ol", "", {}, "w")>> >>,
                <<"unknown", "", "", <<>> >> },
        s \in SlotSectionIds, p \in SlotParagraphIds, pos \in Positions }

\* One iteration of "for slot in slots" (lines 94-175).
ApplySlot ==
    /\ ppc = "inject"
    /\ applied < MaxSlots
    /\ \E sl \in Slots :
        LET r == InjectOne(markup, sl) IN
        /\ markup' = r.markup
        /\ slot' = sl
        /\ log' = Append(log, r.did)
    /\ applied' = applied + 1
    /\ UNCHANGED <<input, view, passes, prev, ppc, rvars, bvars>>

\* The elements a markup given to inject_slots_into_html is made of.
InjectShapes == { <<"h2", "sec_1">>, <<"p", "p_1">>, <<"p", "">> }

InjectInit ==
    /\ ResolverIdle
    /\ \E len \in 0 .. MaxInjNodes : \E f \in [1 .. len -> InjectShapes] :
           input = [ i \in 1 .. len |-> Node(i, f[i][1], f[i][2], {}, "t" \o ToString(i)) ]
    /\ markup = input
    /\ view = NoView
    /\ passes = 0
    /\ prev = [markup |-> NoMarkup, view |-> NoView]
    /\ ppc = "inject"
    /\ slot = NoSlot
    /\ applied = 0
    /\ log = <<>>
    /\ BuildIdle

InjectNext == ApplySlot

InjectSpec == InjectInit /\ [][InjectNext]_vars

(***************************************************************************)
(* build_image_slots_from_specs                                            *)
(***************************************************************************)

\* The i-th slot spec of the input list; spec.get("paragraph_id") of a spec
\* without the key is None, spec.get("position", "after") is "after".
SlotSpec(i, hint) ==
    [ section_id |-> "sec_" \o ToString(i),
      paragraph_id |-> NoneVal,
      position |-> "after",
      search_query |-> "q" \o ToString(i),
      alt_text_hint |-> hint ]

AltTextHints == {"", "hint"}

\* candidates[i] as search_images returns it.
Candidate(i) == [ title |-> "title", url |-> "url" \o ToString(i) ]

\* What search_images does for one query: it raises, returns an empty list,
\* or returns k candidates.
LookupRaises == [kind |-> "error", count |-> 0]
LookupReturns(k) == [kind |-> IF k = 0 THEN "empty" ELSE "found", count |-> k]
Lookups == {LookupRaises} \cup { LookupReturns(k) : k \in 0 .. MaxBuildCandidates }

\* The judge's answers while a slot is being resolved.
BuildOutcomes ==
    { Ok(0), Ok(1), Answer(0, NoneVal), Malformed,
      Raised("Fetching image failed"), Raised("Error code: 500") }

\* The fate of one spec: how its lookup ended and what the resolver returned.
Fate(spec, lookup, result) ==
    [ section_id |-> spec.section_id, lookup |-> lookup, result |-> result ]

\* Line 227: spec.get("alt_text_hint") or top.get("title") or "".
AltText(spec, top) ==
    IF spec.alt_text_hint # "" THEN spec.alt_text_hint ELSE top.title

\* Lines 229-236.
ImageSlot(spec, best_index, caption) ==
    LET top == Candidate(best_index) IN
    [ section_id |-> spec.section_id,
      paragraph_id |-> spec.paragraph_id,
      position |-> spec.position,
      image_url |-> top.url,
      alt_text |-> AltText(spec, top),
      caption |-> caption ]

\* Lines 203-218: the next spec of the loop, its lookup, and the call of the
\* resolver on the candidates found.
SearchMut ==
    /\ bpc = "next"
    /\ handled < Len(slot_specs)
    /\ \E l \in Lookups :
          LET spec == slot_specs[handled + 1] IN
          IF l.kind \in {"error", "empty"}
          THEN /\ fates' = Append(fates, Fate(spec, l.kind, Pending))
               /\ handled' = handled + 1
               /\ bpc' = IF l.kind = "error" THEN "returned" ELSE bpc
               /\ UNCHANGED <<slot_specs, image_slots, rvars>>
          ELSE /\ n' = l.count
               /\ excluded_indices' = {}
               /\ attempt' = 0
               /\ calls' = 0
               /\ outcomes' = <<>>
               /\ submitted' = <<>>
               /\ rpc' = "start"
               /\ ret' = Pending
               /\ bpc' = "resolving"
               /\ UNCHANGED <<hasKey, slot_specs, handled, image_slots, fates>>
    /\ UNCHANGED <<pvars, ivars>>
Search ==
    /\ bpc = "next"
    /\ handled < Len(slot_specs)
    /\ \E l \in Lookups :
          LET spec == slot_specs[handled + 1] IN
          IF l.kind \in {"error", "empty"}
          THEN \* lines 208-210 and 212-214
               /\ fates' = Append(fates, Fate(spec, l.kind, Pending))
               /\ handled' = handled + 1
               /\ UNCHANGED <<slot_specs, image_slots, bpc, rvars>>
          ELSE \* line 218
               /\ n' = l.count
               /\ excluded_indices' = {}
               /\ attempt' = 0
               /\ calls' = 0
               /\ outcomes' = <<>>
               /\ submitted' = <<>>
               /\ rpc' = "start"
               /\ ret' = Pending
               /\ bpc' = "resolving"
               /\ UNCHANGED <<hasKey, slot_specs, handled, image_slots, fates>>
    /\ UNCHANGED <<pvars, ivars>>

BuildAttempt == \E o \in BuildOutcomes : AttemptWith(o)

\* Lines 218-236: the resolver has returned.
Collect ==
    /\ bpc = "resolving"
    /\ rpc \in {"selected", "exhausted"}
    /\ LET spec == slot_specs[handled + 1] IN
       /\ fates' = Append(fates, Fate(spec, "found", ret))
       /\ image_slots' =
             IF ret.kind = "Exhausted" \/ ret.caption = NoneVal
             THEN image_slots
             ELSE Append(image_slots, ImageSlot(spec, ret.index, ret.caption))
    /\ handled' = handled + 1
    /\ bpc' = "next"
    /\ rpc' = "idle"
    /\ UNCHANGED <<slot_specs, n, hasKey, excluded_indices, attempt, calls,
                   outcomes, submitted, ret, pvars, ivars>>

\* Line 238.
Return ==
    /\ bpc = "next"
    /\ handled = Len(slot_specs)
    /\ bpc' = "returned"
    /\ UNCHANGED <<slot_specs, handled, image_slots, fates, rvars, pvars, ivars>>

BuildInit ==
    /\ n = 0
    /\ hasKey \in BOOLEAN
    /\ excluded_indices = {}
    /\ attempt = 0
    /\ calls = 0
    /\ outcomes = <<>>
    /\ submitted = <<>>
    /\ rpc = "idle"
    /\ ret = Pending
    /\ input = NoMarkup
    /\ markup = NoMarkup
    /\ view = NoView
    /\ passes = 0
    /\ prev = [markup |-> NoMarkup, view |-> NoView]
    /\ ppc = "ready"
    /\ slot = NoSlot
    /\ applied = 0
    /\ log = <<>>
    /\ \E len \in 0 .. MaxSpecs : \E h \in [1 .. len -> AltTextHints] :
           slot_specs = [ i \in 1 .. len |-> SlotSpec(i, h[i]) ]
    /\ handled = 0
    /\ image_slots = <<>>
    /\ fates = <<>>
    /\ bpc = "next"

BuildNext == Search \/ Enter \/ BuildAttempt \/ LoopExit \/ Collect \/ Return

BuildSpec == BuildInit /\ [][BuildNext]_vars

(***************************************************************************)
(* Properties of select_best_image_with_grok                               *)
(***************************************************************************)

IsFetchFailure(o) == o.kind = "error" /\ o.msg \in retryable_errors
AllFetchFailures(k) == \A i \in 1 .. k : IsFetchFailure(outcomes[i])
Terminal == rpc \in {"selected", "exhausted"}

\* C1: with N >= 1 candidates, when exactly the first K calls (0 <= K < N)
\* fail with a resource-fetch-class error and call K+1 succeeds with the
\* judge answering the renumbered index j (0 <= j < N-K), the resolver has
\* made exactly K+1 judge calls and returns Selected with the original index
\* of the j-th entry of the subset submitted on call K+1; that subset is the
\* first N-K candidates, so the original index is j.
C1_RetryThenSelect ==
    \A K \in 0 .. (n - 1) : \A j \in 0 .. (n - K - 1) :
        ( /\ Len(outcomes) = K + 1
          /\ AllFetchFailures(K)
          /\ outcomes[K + 1] = Ok(j) )
        => ( /\ calls = K + 1
             /\ rpc = "selected"
             /\ ret.kind = "Selected"
             /\ ret.index = j
             /\ ret.index \notin excluded_indices )

C1_Witness ==
    /\ n = 4
    /\ Len(outcomes) = 3
    /\ AllFetchFailures(2)
    /\ outcomes[3] = Ok(1)
    /\ ret.kind = "Selected"

\* C2: with N >= 1 candidates and every judge call failing with a
\* resource-fetch-class error, the resolver never returns Selected, never
\* makes more than N calls, keeps retrying while fewer than N calls were
\* made, and when it has returned it made exactly N calls and returned
\* Exhausted (None, None).
C2_AllFetchFailuresExhaust ==
    (n >= 1 /\ hasKey /\ AllFetchFailures(Len(outcomes)))
    => ( /\ ret.kind # "Selected"
         /\ calls <= n
         /\ rpc \in {"start", "loop", "exhausted"}
         /\ (rpc = "exhausted" => (calls = n /\ ret = Exhausted)) )

C2_Witness ==
    /\ n = 3
    /\ Len(outcomes) = 3
    /\ AllFetchFailures(3)
    /\ rpc = "exhausted"
    /\ ret = Exhausted

\* C3: for every candidate list and every sequence of judge outcomes the
\* resolver eventually returns Selected or Exhausted, and it never makes
\* more than N judge calls.
C3_TerminatesWithinN == <>Terminal /\ [](calls <= n)

C3_Witness ==
    /\ n = 3
    /\ calls = 3
    /\ Terminal
    /\ outcomes[3].kind # "ok"
    /\ ~IsFetchFailure(outcomes[3])

\* The outcome o of a call on a subset of size k is an error that matches
\* none of the resource-fetch-class markers.
IsOtherError(o, k) ==
    \/ o.kind = "error" /\ o.msg \notin retryable_errors
    \/ o.kind = "malformed"
    \/ o.kind = "ok" /\ ~((0 - k) <= o.j /\ o.j < k)

\* C4: a judge error that matches no resource-fetch-class marker ends the
\* resolution in Exhausted at once: that step adds nothing to the exclusion
\* set, and once Exhausted no further judge call is made.
C4_OtherErrorIsFatal ==
    [][ /\ ( /\ rpc = "loop"
             /\ calls' = calls + 1
             /\ IsOtherError(outcomes'[Len(outcomes')], n - Cardinality(excluded_indices)) )
           => ( /\ rpc' = "exhausted"
                /\ ret' = Exhausted
                /\ excluded_indices' = excluded_indices )
        /\ (rpc = "exhausted" => calls' = calls) ]_vars

C4_Witness ==
    /\ n = 4
    /\ Len(outcomes) = 2
    /\ IsFetchFailure(outcomes[1])
    /\ outcomes[2] = Raised("Error code: 500")
    /\ rpc = "exhausted"
    /\ excluded_indices = {3}

\* C5: with an empty candidate list the resolver returns index 0 with an
\* empty description at once: no judge call is made, the retry loop is never
\* entered and Exhausted is never returned.
C5_EmptyListDefault ==
    n = 0 => ( /\ calls = 0
               /\ rpc \in {"start", "selected"}
               /\ ret.kind # "Exhausted"
               /\ (rpc = "selected" => ret = Selected(0, "")) )

C5_Witness == n = 0 /\ hasKey /\ rpc = "selected" /\ ret = Selected(0, "")

(***************************************************************************)
(* Properties of html_to_article_view                                      *)
(***************************************************************************)

RECURSIVE Flatten(_)
Flatten(seqs) == IF seqs = <<>> THEN <<>> ELSE Head(seqs) \o Flatten(Tail(seqs))

SectionIds(v) == [ k \in 1 .. Len(v.sections) |-> v.sections[k].id ]
ParagraphIdsOf(sec) == [ k \in 1 .. Len(sec.paragraphs) |-> sec.paragraphs[k].id ]
ParagraphIds(v) ==
    Flatten([ k \in 1 .. Len(v.sections) |-> ParagraphIdsOf(v.sections[k]) ])
Anchors(v) == SectionIds(v) \o ParagraphIds(v)

PairwiseDistinct(seq) ==
    \A i \in 1 .. Len(seq) : \A j \in 1 .. Len(seq) : i # j => seq[i] # seq[j]

Elements(m) == { m[i] : i \in 1 .. Len(m) }

\* The identifiers the elements of m carry, one entry per element that has one.
CarriedIds(m) ==
    Flatten([ i \in 1 .. Len(m) |-> IF m[i].id = "" THEN <<>> ELSE <<m[i].id>> ])

\* C6: for every input markup with an article root, after the parse every
\* Section and every Paragraph of the article view has a non-empty anchor
\* and the anchors are pairwise distinct across sections and paragraphs,
\* also when source elements already carry identifiers (such as p_1 or
\* sec_1).  Stated for inputs whose own identifiers are pairwise distinct.
C6_AnchorsNonEmptyUnique ==
    (ppc = "parsed" /\ passes = 1 /\ PairwiseDistinct(CarriedIds(input)))
    => ( /\ \A k \in 1 .. Len(Anchors(view)) : Anchors(view)[k] # ""
         /\ PairwiseDistinct(Anchors(view)) )

\* C7: parsing the markup a parse returned changes no anchor: every element
\* that carries an identifier after the first parse carries the same one
\* after the second, and the second article view lists the same section ids
\* and, section by section, the same paragraph ids in the same order.
C7_ReparseKeepsAnchors ==
    (ppc = "parsed" /\ passes >= 2)
    => ( /\ \A t \in Elements(prev.markup) :
                t.id # "" => \E u \in Elements(markup) : u.nid = t.nid /\ u.id = t.id
         /\ SectionIds(view) = SectionIds(prev.view)
         /\ \A k \in 1 .. Len(view.sections) :
                ParagraphIdsOf(view.sections[k]) = ParagraphIdsOf(prev.view.sections[k]) )

C7_Witness ==
    /\ ppc = "parsed"
    /\ passes = 2
    /\ Len(view.sections) = 2
    /\ view.sections[1].synthetic
    /\ Len(view.sections[1].paragraphs) = 1
    /\ \E t \in Elements(input) : t.tag = "h2" /\ t.id = ""

SyntheticSections(v) == { k \in 1 .. Len(v.sections) : v.sections[k].synthetic }

\* In markup m some paragraph-like element of the article root comes before
\* every heading of the root other than the title.
HasPreHeadingParagraph(m) ==
    LET a == FindArticle(m)
        title == FindTitle(m, a)
    IN  \E i \in (a + 1) .. ArticleEnd(m, a) :
            /\ IsParagraphLike(m[i])
            /\ \A j \in (a + 1) .. (i - 1) : m[j].tag \in HEADING_TAGS => j = title

\* C8: the article view holds at most one synthetic section (heading
\* "Introduction", level 2); it holds one exactly when a paragraph-like
\* element is met while no section is open, and then it is the first section.
C8_OneSyntheticSectionFirst ==
    ppc = "parsed"
    => ( /\ Cardinality(SyntheticSections(view)) <= 1
         /\ SyntheticSections(view) \subseteq {1}
         /\ (SyntheticSections(view) # {}) <=> HasPreHeadingParagraph(prev.markup)
         /\ \A k \in SyntheticSections(view) :
                view.sections[k].heading = "Introduction" /\ view.sections[k].level = 2 )

C8_Witness ==
    /\ ppc = "parsed"
    /\ passes = 1
    /\ Len(view.sections) = 2
    /\ view.sections[1].synthetic
    /\ Len(view.sections[1].paragraphs) = 2
    /\ ~view.sections[2].synthetic

(***************************************************************************)
(* Properties of inject_slots_into_html                                    *)
(***************************************************************************)

Nids(m) == { m[i].nid : i \in 1 .. Len(m) }

RECURSIVE Restrict(_, _)
\* The elements of m whose identity is in S, in the order m has them.
Restrict(m, S) ==
    IF m = <<>> THEN <<>>
    ELSE (IF Head(m).nid \in S THEN <<Head(m)>> ELSE <<>>) \o Restrict(Tail(m), S)

\* m2 is m with one new element as its k-th element, everything else kept.
IsInsertionAt(m, m2, k) ==
    /\ Len(m2) = Len(m) + 1
    /\ k \in 1 .. Len(m2)
    /\ m2[k].nid \notin Nids(m)
    /\ \A i \in 1 .. Len(m) : m[i] = m2[IF i < k THEN i ELSE i + 1]

\* m2 is m with one new element right before or right after the element at
\* position a of m.
IsInsertionNextTo(m, m2, a) ==
    a # 0 /\ (IsInsertionAt(m, m2, a) \/ IsInsertionAt(m, m2, a + 1))

\* The position of the first element of m carrying identifier x; 0 when x is
\* None or no element carries it.
Named(m, x) ==
    IF x # NoneVal /\ \E i \in 1 .. Len(m) : m[i].id = x
    THEN Min({ i \in 1 .. Len(m) : m[i].id = x })
    ELSE 0

\* The anchor a slot resolves to: the element its paragraph identifier names,
\* else the one its section identifier names, else 0.
ResolvedAnchor(m, sl) ==
    IF Named(m, sl.paragraph_id) # 0 THEN Named(m, sl.paragraph_id)
    ELSE Named(m, sl.section_id)

\* The element a fragment is placed next to: for the heading positions the
\* element the section identifier names when there is one, else the anchor
\* the slot resolved to.
PlacementAnchor(m, sl) ==
    IF sl.position \in {"before_heading", "after_heading"} /\ Named(m, sl.section_id) # 0
    THEN Named(m, sl.section_id)
    ELSE ResolvedAnchor(m, sl)

\* C9 as stated: inject never deletes, mutates or reorders pre-existing
\* content (the elements of the input markup appear in the output in the
\* same order with the same identifiers and text), and every node a slot
\* adds is a sibling placed next to the anchor element the slot resolved to.
C9_AddsNextToResolvedAnchor ==
    [][ applied' = applied + 1
        => ( /\ Restrict(markup', Nids(input)) = input
             /\ \/ markup' = markup
                \/ IsInsertionNextTo(markup, markup', ResolvedAnchor(markup, slot')) ) ]_vars

\* C9 as amended: inject never deletes, mutates or reorders pre-existing
\* content, and every node a slot adds is a sibling placed next to the
\* anchor element the slot resolved to or, for the positions before_heading
\* and after_heading when the section identifier names an element, next to
\* that element.
C9_AddsNextToPlacementAnchor ==
    [][ applied' = applied + 1
        => ( /\ Restrict(markup', Nids(input)) = input
             /\ \/ markup' = markup
                \/ IsInsertionNextTo(markup, markup', PlacementAnchor(markup, slot')) ) ]_vars

C9_Witness ==
    /\ log = <<"inserted", "inserted">>
    /\ Len(markup) = Len(input) + 2
    /\ slot.position = "before_heading"
    /\ Named(input, slot.paragraph_id) = 2
    /\ Named(input, slot.section_id) = 1
    /\ Restrict(markup, Nids(input)) = input

HasPayload(sl) ==
    \/ sl.kind = "image" /\ sl.image_url # ""
    \/ sl.kind = "widget" /\ sl.widget_html # <<>>

\* C10: for an Image or Widget slot the anchor is the element the paragraph
\* identifier names, when it is given and names one, else the element the
\* section identifier names; when neither names an element the slot is
\* dropped and leaves the markup unchanged, and the loop goes on to the next
\* slot.  (A slot with a payload and an anchor adds one element; with
\* position before or after it is the anchor's previous or next sibling.)
C10_ParagraphThenSection ==
    [][ (applied' = applied + 1 /\ slot'.kind \in {"image", "widget"})
        => LET p == Named(markup, slot'.paragraph_id)
               s == Named(markup, slot'.section_id)
               a == IF p # 0 THEN p ELSE s
           IN  /\ (a = 0 => markup' = markup)
               /\ (a = 0 /\ HasPayload(slot')) => log'[applied'] = "no_anchor"
               /\ (a # 0 /\ HasPayload(slot'))
                    => ( /\ log'[applied'] = "inserted"
                         /\ Len(markup') = Len(markup) + 1
                         /\ slot'.position = "before" => IsInsertionAt(markup, markup', a)
                         /\ slot'.position = "after" => IsInsertionAt(markup, markup', a + 1) ) ]_vars

\* A slot whose paragraph identifier names nothing falls back to its section
\* identifier, after an earlier slot was dropped for want of an anchor.
C10_Witness ==
    /\ log = <<"no_anchor", "inserted">>
    /\ slot.paragraph_id = "p_1"
    /\ slot.section_id = "sec_1"
    /\ slot.position = "after"
    /\ Named(input, "p_1") = 0
    /\ Named(input, "sec_1") = 2
    /\ Len(markup) = 3
    /\ markup[3].tag \in {"figure", "div"}
    /\ markup[3].kids # <<>>

\* C11: for a slot with position before_heading (after_heading) the fragment
\* becomes the element immediately before (after) the element carrying the
\* slot's section identifier, also when the slot was resolved through its
\* paragraph identifier; only when the section identifier names no element
\* is it placed immediately before (after) the anchor that resolved the slot.
C11_HeadingPositionsUseSectionAnchor ==
    [][ ( /\ applied' = applied + 1
          /\ HasPayload(slot')
          /\ slot'.position \in {"before_heading", "after_heading"}
          /\ ResolvedAnchor(markup, slot') # 0 )
        => LET s == Named(markup, slot'.section_id)
               a == IF s # 0 THEN s ELSE ResolvedAnchor(markup, slot')
           IN  IF slot'.position = "before_heading"
               THEN IsInsertionAt(markup, markup', a)
               ELSE IsInsertionAt(markup, markup', a + 1) ]_vars

\* A slot resolved through its paragraph identifier, placed after the
\* section's element, which is not the paragraph.
C11_Witness ==
    /\ applied = 1
    /\ log = <<"inserted">>
    /\ slot.position = "after_heading"
    /\ Named(input, slot.paragraph_id) = 1
    /\ Named(input, slot.section_id) = 2
    /\ Len(markup) = 3
    /\ markup[3].nid \notin Nids(input)

\* The figure of image slot sl: an img holding the image reference and, for a
\* non-empty caption, a caption node with the caption text.
IsFigureOf(e, sl) ==
    /\ e.tag = "figure"
    /\ Len(e.kids) = IF sl.caption = "" THEN 1 ELSE 2
    /\ e.kids[1].tag = "img"
    /\ e.kids[1].attr = {sl.image_url}
    /\ sl.caption # "" => (e.kids[2].tag = "figcaption" /\ e.kids[2].text = sl.caption)

\* C12: for a slot with position after (before) whose anchor resolves, the
\* fragment built for the slot is, right after the slot is applied, the
\* immediate next (previous) sibling of the resolved anchor; for an Image
\* slot it is a figure holding the image reference and a caption node with
\* the slot's caption text.
C12_BeforeAfterAdjacentFigure ==
    [][ ( /\ applied' = applied + 1
          /\ HasPayload(slot')
          /\ slot'.position \in {"before", "after"}
          /\ ResolvedAnchor(markup, slot') # 0 )
        => LET a == ResolvedAnchor(markup, slot')
               k == IF slot'.position = "before" THEN a ELSE a + 1
           IN  /\ IsInsertionAt(markup, markup', k)
               /\ slot'.kind = "image" => IsFigureOf(markup'[k], slot') ]_vars

\* The end-to-end example: heading sec_1, paragraph p_1, an Image slot on
\* p_1 with position after, image x.png and caption B.
C12_Witness ==
    /\ applied = 1
    /\ Len(input) = 2
    /\ input[1].id = "sec_1" /\ input[2].id = "p_1"
    /\ slot.kind = "image" /\ slot.position = "after"
    /\ slot.section_id = "sec_1" /\ slot.paragraph_id = "p_1"
    /\ slot.image_url = "x.png" /\ slot.caption = "B"
    /\ Len(markup) = 3
    /\ markup[2] = input[2]
    /\ markup[3].tag = "figure"
    /\ markup[3].kids[2].text = "B"

\* C19: a slot with neither an Image nor a Widget payload is skipped without
\* failing: it adds no node, the loop goes on to the later slots, and when
\* every slot handled so far was skipped the markup is exactly the input.
C19_UnknownSlotSkipped ==
    [][ applied' = applied + 1
        => ( /\ slot'.kind \notin {"image", "widget"}
                  => (markup' = markup /\ log'[applied'] = "unknown")
             /\ (\A i \in 1 .. Len(log') : log'[i] # "inserted") => markup' = input ) ]_vars

\* An unknown slot was skipped and the slot after it was applied.
C19_Witness ==
    /\ log = <<"unknown", "inserted">>
    /\ Len(input) = 2
    /\ Len(markup) = 3
    /\ Restrict(markup, Nids(input)) = input

(***************************************************************************)
(* Further properties of html_to_article_view.  The markup a parse was     *)
(* given is prev.markup; the markup and the view it returned are markup    *)
(* and view.                                                               *)
(***************************************************************************)

NoArticle(m) == \A i \in 1 .. Len(m) : m[i].tag # "article"

\* The positions, in document order, of the elements inside the article
\* root of m that satisfy Test.
InRoot(m, Test(_)) ==
    LET a == FindArticle(m)
    IN  Ascending(a + 1, ArticleEnd(m, a), { i \in 1 .. Len(m) : Test(i) })

TitlePos(m) == FindTitle(m, FindArticle(m))

\* The headings of the root other than the title, and its paragraph-like
\* elements.
SectionHeadings(m) ==
    LET IsOpener(i) == m[i].tag \in HEADING_TAGS /\ i # TitlePos(m)
    IN  InRoot(m, IsOpener)
Paragraphs(m) ==
    LET IsPara(i) == IsParagraphLike(m[i])
    IN  InRoot(m, IsPara)

\* The element of m that is node nid.
ElementOf(m, nid) == CHOOSE t \in Elements(m) : t.nid = nid

RealSections(v) ==
    Flatten([ k \in 1 .. Len(v.sections) |->
                IF v.sections[k].synthetic THEN <<>> ELSE <<v.sections[k]>> ])
AllParagraphs(v) ==
    Flatten([ k \in 1 .. Len(v.sections) |-> v.sections[k].paragraphs ])

\* C13: the parse raises exactly when the input markup holds no article
\* element (tagged with the canonical type or not); then no markup and no
\* article view are returned and nothing runs after it.
C13_RaisesIffNoArticle ==
    /\ ppc = "raised" => (NoArticle(input) /\ markup = input /\ view = NoView /\ passes = 0)
    /\ ppc = "parsed" => ~NoArticle(input)
    /\ NoArticle(input) => (ppc \in {"ready", "raised"} /\ passes = 0)
    /\ (~NoArticle(input) /\ passes = 0) => ppc = "ready"

C13_Witness ==
    /\ ppc = "raised"
    /\ Len(input) = 3
    /\ \E t \in Elements(input) : t.tag = "h2"
    /\ \E t \in Elements(input) : t.tag = "p"

\* C15: the parse never overwrites an identifier that is present: every
\* heading other than the title and every paragraph-like element that
\* carries a non-empty identifier in the markup given keeps it in the markup
\* returned, and the article view records that identifier for it.
C15_ExistingIdsKept ==
    ppc = "parsed"
    => LET m0 == prev.markup
           hs == SectionHeadings(m0)
           ps == Paragraphs(m0)
       IN  /\ Len(RealSections(view)) = Len(hs)
           /\ Len(AllParagraphs(view)) = Len(ps)
           /\ \A k \in 1 .. Len(hs) :
                m0[hs[k]].id # ""
                => ( /\ ElementOf(markup, m0[hs[k]].nid).id = m0[hs[k]].id
                     /\ RealSections(view)[k].id = m0[hs[k]].id )
           /\ \A k \in 1 .. Len(ps) :
                m0[ps[k]].id # ""
                => ( /\ ElementOf(markup, m0[ps[k]].nid).id = m0[ps[k]].id
                     /\ AllParagraphs(view)[k].id = m0[ps[k]].id )

C15_Witness ==
    /\ ppc = "parsed"
    /\ passes = 1
    /\ Len(SectionHeadings(input)) = 1
    /\ input[SectionHeadings(input)[1]].id = "p_1"
    /\ Len(Paragraphs(input)) = 2
    /\ input[Paragraphs(input)[1]].id = ""
    /\ input[Paragraphs(input)[2]].id = "sec_1"
    /\ AllParagraphs(view)[2].id = "sec_1"

\* C16: after the parse every Section id and Paragraph id of the article
\* view is carried by an element of the markup returned: a real section's
\* by its heading, a paragraph's by its paragraph-like element, and the
\* synthetic section's by an element the parse inserted as the immediate
\* previous sibling of the first pre-heading paragraph.
C16_IdsCarriedByMarkup ==
    ppc = "parsed"
    => LET m0 == prev.markup
           hs == SectionHeadings(m0)
           ps == Paragraphs(m0)
       IN  /\ Len(RealSections(view)) = Len(hs)
           /\ Len(AllParagraphs(view)) = Len(ps)
           /\ \A k \in 1 .. Len(hs) :
                /\ RealSections(view)[k].id # ""
                /\ ElementOf(markup, m0[hs[k]].nid).id = RealSections(view)[k].id
           /\ \A k \in 1 .. Len(ps) :
                /\ AllParagraphs(view)[k].id # ""
                /\ ElementOf(markup, m0[ps[k]].nid).id = AllParagraphs(view)[k].id
           /\ \A k \in SyntheticSections(view) :
                \E j \in 1 .. (Len(markup) - 1) :
                    /\ markup[j].nid \notin Nids(m0)
                    /\ markup[j].id = view.sections[k].id
                    /\ markup[j + 1].nid = m0[ps[1]].nid

C16_Witness ==
    /\ ppc = "parsed"
    /\ passes = 1
    /\ Len(view.sections) = 2
    /\ view.sections[1].synthetic
    /\ Len(AllParagraphs(view)) = 2
    /\ \A t \in Elements(input) : t.id = ""
    /\ Len(markup) = Len(input) + 1

\* No element inside the root of m carries an identifier.
NoIdsInRoot(m) ==
    LET HasId(i) == m[i].id # "" IN InRoot(m, HasId) = <<>>

\* The headings of the root that come after the title.
HeadingsAfterTitle(m) ==
    LET After(i) == m[i].tag \in HEADING_TAGS /\ i > TitlePos(m) IN InRoot(m, After)
HeadingsBeforeTitle(m) ==
    LET Before(i) == m[i].tag \in HEADING_TAGS /\ i < TitlePos(m) IN InRoot(m, Before)

\* The title is no section and gives the view its title.
TitleIsNoSection ==
    /\ view.title = prev.markup[TitlePos(prev.markup)].text
    /\ \A k \in 1 .. Len(view.sections) :
            view.sections[k].heading # prev.markup[TitlePos(prev.markup)].text

\* The first heading after the title received sec_1.
FirstAfterTitleIsSec1 ==
    LET h == prev.markup[HeadingsAfterTitle(prev.markup)[1]]
    IN  /\ ElementOf(markup, h.nid).id = "sec_1"
        /\ \E k \in 1 .. Len(view.sections) :
                view.sections[k].heading = h.text /\ view.sections[k].id = "sec_1"

\* C17 as stated: the title heading never appears in the sections, its text
\* is the view's title, and skipping it consumes no section counter: in a
\* document without pre-existing identifiers and without pre-heading
\* paragraphs the first heading after the title receives sec_1.
C17_TitleSkippedSec1 ==
    (ppc = "parsed" /\ passes = 1 /\ TitlePos(input) # 0)
    => ( /\ TitleIsNoSection
         /\ ( /\ NoIdsInRoot(input)
              /\ ~HasPreHeadingParagraph(input)
              /\ HeadingsAfterTitle(input) # <<>> )
            => FirstAfterTitleIsSec1 )

\* C17 as amended: the same, for a document in which, besides, no heading
\* precedes the title.
C17_TitleSkippedSec1NoEarlierHeading ==
    (ppc = "parsed" /\ passes = 1 /\ TitlePos(input) # 0)
    => ( /\ TitleIsNoSection
         /\ ( /\ NoIdsInRoot(input)
              /\ ~HasPreHeadingParagraph(input)
              /\ HeadingsBeforeTitle(input) = <<>>
              /\ HeadingsAfterTitle(input) # <<>> )
            => FirstAfterTitleIsSec1 )

C17_Witness ==
    /\ ppc = "parsed"
    /\ passes = 1
    /\ Len(input) = 4
    /\ input[2].tag = "h1" /\ input[3].tag = "h2" /\ input[4].tag = "p"
    /\ NoIdsInRoot(input)
    /\ view.title = "t2"
    /\ Len(view.sections) = 1
    /\ view.sections[1].id = "sec_1"
    /\ view.sections[1].heading = "t3"

\* The number of sections opened before position i of m: the headings of
\* the root other than the title before i, and the synthetic section.
OpenedBefore(m, i) ==
    Cardinality({ k \in 1 .. Len(SectionHeadings(m)) : SectionHeadings(m)[k] < i })
        + (IF HasPreHeadingParagraph(m) THEN 1 ELSE 0)

\* The texts of the paragraph-like elements of the root of m met while the
\* k-th section was the one opened last, in document order.
TextsUnder(m, k) ==
    LET Under(i) == IsParagraphLike(m[i]) /\ OpenedBefore(m, i) = k
        at == InRoot(m, Under)
    IN  [ j \in 1 .. Len(at) |-> m[at[j]].text ]

\* C18: every paragraph-like element of the root is in exactly one section's
\* paragraph list, exactly once: the list of the section opened last before
\* the element (the synthetic one if no heading opened one), and every list
\* is in document order.
C18_ParagraphInLastOpenedSection ==
    ppc = "parsed"
    => /\ Len(AllParagraphs(view)) = Len(Paragraphs(prev.markup))
       /\ \A k \in 1 .. Len(view.sections) :
            [ j \in 1 .. Len(view.sections[k].paragraphs) |-> view.sections[k].paragraphs[j].text ]
                = TextsUnder(prev.markup, k)

C18_Witness ==
    /\ ppc = "parsed"
    /\ passes = 1
    /\ Len(view.sections) = 2
    /\ view.sections[1].synthetic
    /\ Len(view.sections[1].paragraphs) = 1
    /\ Len(view.sections[2].paragraphs) = 1
    /\ view.sections[2].paragraphs[1].text = "t4"

(***************************************************************************)
(* Further properties of select_best_image_with_grok                       *)
(***************************************************************************)

\* C20: each resource-fetch-class failure adds to the exclusion set exactly
\* one index, the original index of the last candidate of the subset
\* submitted on that call, which was not excluded before; the exclusion set
\* never shrinks; and the subset submitted on every call is exactly the
\* non-excluded candidates in original order, the exclusions of all earlier
\* failures already made: after k failures it is the first N-k candidates.
C20_ExcludesLastSubmitted ==
    [][ /\ excluded_indices \subseteq excluded_indices'
        /\ calls' = calls + 1
           => LET k == calls
                  last == submitted'[Len(submitted')]
              IN  /\ AllFetchFailures(k)
                  /\ Cardinality(excluded_indices) = k
                  /\ submitted' = [ i \in 1 .. (n - k) |-> i - 1 ]
                  /\ \A i \in 0 .. (n - 1) :
                        i \notin excluded_indices
                        <=> \E q \in 1 .. Len(submitted') : submitted'[q] = i
                  /\ IF IsFetchFailure(outcomes'[calls'])
                     THEN /\ last \notin excluded_indices
                          /\ excluded_indices' = excluded_indices \cup {last}
                     ELSE excluded_indices' = excluded_indices ]_vars

C20_Witness ==
    /\ n = 4
    /\ calls = 3
    /\ AllFetchFailures(3)
    /\ excluded_indices = {1, 2, 3}
    /\ submitted = <<0, 1>>
    /\ rpc = "loop"

(***************************************************************************)
(* Properties of build_image_slots_from_specs                              *)
(***************************************************************************)

\* The resolver returned an index and a caption for the spec of fate f.
Resolved(f) ==
    /\ f.lookup = "found"
    /\ f.result.kind = "Selected"
    /\ f.result.caption # NoneVal

\* The lookup of the spec raised, or its resolution ended Exhausted.
Failed(f) ==
    \/ f.lookup = "error"
    \/ f.lookup = "found" /\ f.result.kind = "Exhausted"

SlotsOf(id) == { q \in 1 .. Len(image_slots) : image_slots[q].section_id = id }

\* C14: build_image_slots_from_specs handles the specs one at a time in
\* input order; a spec whose candidate lookup raised or whose resolution
\* ended Exhausted has no slot in the result; when the function returns
\* every spec has been handled, whatever happened to the earlier ones; and
\* the slot list is, in input order, one slot for each spec for which the
\* resolver returned an index and a caption, carrying that spec's section,
\* the chosen candidate's url and the caption.
C14_FailedSpecsSkippedRestInOrder ==
    LET res == SelectSeq(fates, Resolved) IN
    /\ Len(fates) = handled
    /\ handled <= Len(slot_specs)
    /\ \A i \in 1 .. Len(fates) : fates[i].section_id = slot_specs[i].section_id
    /\ \A i \in 1 .. Len(fates) : Failed(fates[i]) => SlotsOf(fates[i].section_id) = {}
    /\ Len(image_slots) = Len(res)
    /\ \A q \in 1 .. Len(res) :
          /\ image_slots[q].section_id = res[q].section_id
          /\ image_slots[q].image_url = "url" \o ToString(res[q].result.index)
          /\ image_slots[q].caption = res[q].result.caption
    /\ bpc = "returned" => Len(fates) = Len(slot_specs)

C14_Witness ==
    /\ bpc = "returned"
    /\ Len(slot_specs) = 2
    /\ Failed(fates[1])
    /\ Resolved(fates[2])
    /\ Len(image_slots) = 1
    /\ image_slots[1].section_id = "sec_2"

(***************************************************************************)
(* Re-parsing, returned indices and the anchor counters                    *)
(***************************************************************************)

\* C21: parsing the markup a parse returned leaves that markup unchanged:
\* the second parse adds no element, and in particular no further anchor
\* element of a synthetic section, also when the first parse created the
\* synthetic Introduction section.
C21_ReparseLeavesMarkup ==
    (ppc = "parsed" /\ passes >= 2) => markup = prev.markup

\* C22: whenever the resolver returns Selected for a non-empty candidate
\* list, the index is a position of the original list (0 <= index < N) and
\* is not excluded at that moment, whatever integer the judge answered; an
\* answer outside 0 .. k-1 for the k candidates submitted either ends the
\* resolution Exhausted or yields such an index.
C22_SelectedIndexValid ==
    /\ [] ( (rpc = "selected" /\ n >= 1)
            => (ret.kind = "Selected"
                /\ ret.index \in (0 .. (n - 1)) \ excluded_indices) )
    /\ [][ ( /\ calls' = calls + 1
             /\ outcomes'[calls'].kind = "ok"
             /\ outcomes'[calls'].j \notin 0 .. (Len(submitted') - 1) )
           => \/ rpc' = "exhausted" /\ ret' = Exhausted
              \/ /\ rpc' = "selected"
                 /\ ret'.index \in (0 .. (n - 1)) \ excluded_indices'
                 /\ \E q \in 1 .. Len(submitted') : submitted'[q] = ret'.index ]_vars

C22_Witness ==
    /\ rpc = "selected"
    /\ n = 4
    /\ excluded_indices = {3}
    /\ calls = 2
    /\ outcomes[2].kind = "ok"
    /\ outcomes[2].j = -1
    /\ ret.index = 2

\* C23: the two counters run over the whole parse and advance for every
\* section opened and every paragraph-like element met, whether its anchor
\* is synthesized or reused: a section whose anchor was synthesized has id
\* sec_k, k its 1-based position in the sections of the article view (the
\* synthetic section included), and a paragraph whose anchor was synthesized
\* has id p_m, m its 1-based position among all paragraphs of the view in
\* document order.  The markup parsed is prev.markup.
C23_SynthesizedIdsArePositions ==
    (ppc = "parsed" /\ passes >= 1)
    => LET m == prev.markup
           hs == SectionHeadings(m)
           ps == Paragraphs(m)
           off == IF SyntheticSections(view) = {} THEN 0 ELSE 1
       IN  /\ Len(view.sections) = Len(hs) + off
           /\ \A k \in SyntheticSections(view) :
                 view.sections[k].id = "sec_" \o ToString(k)
           /\ \A q \in 1 .. Len(hs) :
                 m[hs[q]].id = ""
                 => view.sections[q + off].id = "sec_" \o ToString(q + off)
           /\ Len(AllParagraphs(view)) = Len(ps)
           /\ \A q \in 1 .. Len(ps) :
                 m[ps[q]].id = "" => AllParagraphs(view)[q].id = "p_" \o ToString(q)

C23_Witness ==
    /\ ppc = "parsed"
    /\ passes = 1
    /\ Len(view.sections) = 2
    /\ view.sections[1].synthetic
    /\ ~view.sections[2].synthetic
    /\ view.sections[2].id = "sec_2"
    /\ Len(Paragraphs(input)) = 2
    /\ input[Paragraphs(input)[1]].id # ""
    /\ input[Paragraphs(input)[2]].id = ""
    /\ AllParagraphs(view)[2].id = "p_2"

(***************************************************************************)
(* Order of application and empty payloads in inject_slots_into_html       *)
(***************************************************************************)

\* The position in m of the element that is node nid.
PosOf(m, nid) == CHOOSE i \in 1 .. Len(m) : m[i].nid = nid

\* The identity of the one element m2 holds and m does not.
AddedNid(m, m2) == CHOOSE x \in Nids(m2) : x \notin Nids(m)

\* C24: slots are applied in input order, each against the markup the
\* previous ones left: the second slot's anchor is looked up in, and its
\* fragment added to, the markup holding the first slot's fragment.  When
\* the two slots resolve to the same anchor, with position after for both
\* the later fragment stands right after the anchor and the earlier one
\* right after it; with position before for both the earlier fragment, then
\* the later one, then the anchor.
C24_InputOrderSameAnchor ==
    [][ ( /\ applied = 1
          /\ applied' = 2
          /\ log = <<"inserted">>
          /\ log' = <<"inserted", "inserted">> )
        => LET a1 == ResolvedAnchor(input, slot)
               a2 == ResolvedAnchor(markup, slot')
               f1 == AddedNid(input, markup)
               f2 == AddedNid(markup, markup')
               i == PosOf(markup', markup[a2].nid)
           IN  /\ Len(markup) = Len(input) + 1
               /\ Len(markup') = Len(markup) + 1
               /\ Restrict(markup', Nids(markup)) = markup
               /\ (input[a1].nid = markup[a2].nid
                   /\ slot.position = "after" /\ slot'.position = "after")
                  => ( /\ i + 2 <= Len(markup')
                       /\ markup'[i + 1].nid = f2
                       /\ markup'[i + 2].nid = f1 )
               /\ (input[a1].nid = markup[a2].nid
                   /\ slot.position = "before" /\ slot'.position = "before")
                  => ( /\ i >= 3
                       /\ markup'[i - 2].nid = f1
                       /\ markup'[i - 1].nid = f2 ) ]_vars

\* Two slots were applied after the same anchor: the later fragment stands
\* between the anchor and the earlier fragment.
C24_Witness ==
    /\ log = <<"inserted", "inserted">>
    /\ slot.position = "after"
    /\ Len(input) = 2
    /\ ResolvedAnchor(input, slot) = 1
    /\ [ k \in 1 .. Len(markup) |-> markup[k].nid ] = <<1, 4, 3, 2>>

\* The payload of an Image or Widget slot is empty.
EmptyPayload(sl) ==
    \/ sl.kind = "image" /\ sl.image_url = ""
    \/ sl.kind = "widget" /\ sl.widget_html = <<>>

\* C25: an Image slot whose image reference is empty and a Widget slot whose
\* markup content is empty are dropped, also when their anchor resolves:
\* the markup stays as it was; and the slot applied after a dropped one is
\* handled as any other: with a payload and an anchor it adds its fragment.
C25_EmptyPayloadDropped ==
    [][ applied' = applied + 1
        => ( /\ EmptyPayload(slot')
                => (markup' = markup /\ log'[applied'] = "empty")
             /\ ( /\ applied >= 1
                  /\ log[applied] = "empty"
                  /\ HasPayload(slot')
                  /\ ResolvedAnchor(markup, slot') # 0 )
                => ( /\ Len(markup') = Len(markup) + 1
                     /\ log'[applied'] = "inserted" ) ) ]_vars

\* A slot with an empty payload whose anchor resolves was dropped from a
\* markup that already holds the fragment of the slot before it.
C25_Witness ==
    /\ log = <<"inserted", "empty">>
    /\ EmptyPayload(slot)
    /\ slot.kind = "widget"
    /\ ResolvedAnchor(markup, slot) # 0
    /\ Len(markup) = Len(input) + 1

====
